---- MODULE Spec2Model ----
(***************************************************************************)
(* app-world: AppWorldWrapper<W>, a clonable handle on an Arc<RwLock<W>>.  *)
(* msg() takes the write lock and runs the user's handler, read() takes    *)
(* the read lock behind a per-thread reentrancy flag (HAS_READ) and        *)
(* returns a WorldReadGuard whose drop clears the flag.                    *)
(*                                                                         *)
(* Threads are arbitrary clients: each may call read(), msg(), write(),    *)
(* drop its guard, panic and unwind (or be caught by catch_unwind).        *)
(***************************************************************************)
EXTENDS Naturals, Integers, Sequences, FiniteSets, TLC

\* ------------------------------------------------------------------ bounds
NumThreads == 3
MaxMsgs == 2
MaxReads == 1

Threads == 1..NumThreads
\* One wrapper is constructed with AppWorldWrapper::new and owns cell 1, the
\* Arc<RwLock<W>> every handle of it points at.  Cell 2 is a second
\* allocation that no handle of this wrapper refers to.
Wrappers == {1}
Cells == {1, 2}

NoThread == 0
NoCell == 0
NoVal == -2

\* ------------------------------------------------- the user's AppWorld (W)
\* W is a click counter.  "Fault" is a message whose handler panics after it
\* has half-written the state (Corrupt).
Messages == {"Increment", "Reset", "Fault"}
Corrupt == -1
InitialWorld == 0

handler(s, m) ==
  CASE m = "Increment" -> s + 1
    [] m = "Reset"     -> 0
    [] m = "Fault"     -> Corrupt

RECURSIVE FoldLeft(_, _)
FoldLeft(s, ms) ==
  IF ms = <<>> THEN s ELSE FoldLeft(handler(s, Head(ms)), Tail(ms))

\* ------------------------------------------------------- wrappers, clones
\* AppWorldWrapper::new: the k-th wrapper constructed owns the k-th cell.
new(k) == [world |-> k]

\* Clone for AppWorldWrapper: copies the Arc pointer.
\* A clone() that copies the state into a cell of its own.
cloneCopy(self) == [world |-> (self.world % 2) + 1]

clone(self) == [world |-> self.world]

\* Thread 1 constructs the wrappers and keeps the originals; every other
\* thread is handed a clone (as the test moves world_clone1 into a thread).
HandleOf(t, k) == IF t = 1 THEN new(k) ELSE clone(new(k))

VARIABLES
  world,      \* [Cells -> Int]: the W inside each RwLock
  writer,     \* [Cells -> Threads \cup {NoThread}]: holder of the RwLock write guard
  rlocks,     \* [Cells -> [Threads -> Nat]]: RwLockReadGuards held
  poisoned,   \* [Cells -> BOOLEAN]: the RwLock's poison flag
  policy,     \* the platform RwLock's priority policy
  HAS_READ,   \* [Threads -> BOOLEAN]: the thread_local flag
  pc,         \* [Threads -> position of the thread]
  cur,        \* [Threads -> Cells \cup {NoCell}]: self.world of the call (or drop) in progress
  via,        \* [Threads -> wrapper or 0]: which new() the handle of the call in
              \* progress (or of the read() that panicked) descends from
  arg,        \* [Threads -> Messages \cup {"none"}]: msg()'s argument
  local,      \* [Threads -> Int]: what the running handler read of the state
  seen,       \* [Threads -> Int]: the value seen through the thread's live guard
  err,        \* [Threads -> panic message of a panicking thread]
  log,        \* [Wrappers -> Seq(<<thread, message>>)]: history of applied messages
  sent,       \* [Wrappers -> [Threads -> Seq(Messages)]]: history of dispatched messages
  released,   \* [Threads -> BOOLEAN]: history: the thread's last guard was dropped and
              \* it has not completed a read() since
  nreads,     \* [Threads -> Nat]: read() calls counted by the bounded client
  renders     \* history: how many times a msg() has invoked a render callback

vars == <<world, writer, rlocks, poisoned, policy, HAS_READ, pc, cur, via,
          arg, local, seen, err, log, sent, released, nreads, renders>>

lockVars == <<writer, rlocks, poisoned>>
histVars == <<log, sent>>
\* new(), lines 116-119, takes the world and nothing else and msg(), line
\* 123, ends with the handler: no operation of the wrapper evaluates a
\* predicate on the message or invokes a callback, so every action leaves
\* renders as it is.
envVars == <<policy, nreads, renders>>

\* ---------------------------------------------------------------- helpers
\* A thread between calls that holds a write guard obtained from write().
HoldsWrite(t) == \E c \in Cells : writer[c] = t /\ pc[t] = "idle"

\* The RwLock read guards the thread holds, over all cells.
HeldReads(t) == {c \in Cells : rlocks[c][t] > 0}

\* The thread owns a WorldReadGuard whose drop has not begun.
GuardLive(t) ==
  /\ HeldReads(t) # {}
  /\ pc[t] \notin {"drop_lock", "unwind_lock", "done"}

WaitingWriters(c) ==
  {u \in Threads : pc[u] \in {"msg_lock", "write_lock"} /\ cur[u] = c}

\* The threads inside the write section of cell c: running msg()'s handler,
\* or holding a guard returned by write().
InWriteSection(c) ==
  {u \in Threads : \/ pc[u] = "msg_handler" /\ cur[u] = c
                   \/ pc[u] = "idle" /\ writer[c] = u}

\* A lock that grants the read guard only when no other read guard is out.
CanReadExclusive(c) ==
  /\ writer[c] = NoThread
  /\ \A u \in Threads : rlocks[c][u] = 0
  /\ (policy = "writer_pref" => WaitingWriters(c) = {})

\* std::sync::RwLock::read can be granted: no writer holds the lock and, on a
\* platform whose lock prefers writers, no writer is waiting for it.
CanRead(c) ==
  /\ writer[c] = NoThread
  /\ (policy = "writer_pref" => WaitingWriters(c) = {})

\* A lock that grants the write guard while another write guard is out.
CanWriteIgnoringWriter(c) == \A u \in Threads : rlocks[c][u] = 0

\* A lock that grants the write guard while read guards are out.
CanWriteIgnoringReaders(c) == writer[c] = NoThread

\* std::sync::RwLock::write can be granted: nobody holds the lock.
CanWrite(c) ==
  /\ writer[c] = NoThread
  /\ \A u \in Threads : rlocks[c][u] = 0

\* A lock whose poison flag is never reported.
IsPoisonedNever(c) == FALSE

\* .unwrap() of the LockResult: the lock reports the poison flag.
IsPoisoned(c) == poisoned[c]

\* A read() that never finds the flag set.
AlreadyReadingNever(t) == FALSE

\* A flag that is one static shared by all threads instead of a thread_local.
AlreadyReadingAnyThread(t) == \E u \in Threads : HAS_READ[u]

\* read(), line 146: `if *has_read`.
AlreadyReading(t) == HAS_READ[t]

\* A drop() that leaves the flag set.
FlagAfterDropStale == TRUE

\* drop(), line 194: the value written to the flag.
FlagAfterDrop == FALSE

\* A msg() that takes the lock and does not run the handler.
AppliedNothing(s, m) == s

\* msg(), line 123: `.msg(msg)`, the handler applied to the locked state.
Applied(s, m) == handler(s, m)

Dispatched ==
  LET RECURSIVE Sum(_)
      Sum(S) == IF S = {} THEN 0
                ELSE LET x == CHOOSE y \in S : TRUE
                     IN Len(sent[x[1]][x[2]]) + Sum(S \ {x})
  IN Sum(Wrappers \X Threads)

\* ------------------------------------------------------------------- Init
Init ==
  /\ world = [c \in Cells |-> InitialWorld]
  /\ writer = [c \in Cells |-> NoThread]
  /\ rlocks = [c \in Cells |-> [t \in Threads |-> 0]]
  /\ poisoned = [c \in Cells |-> FALSE]
  /\ policy \in {"reader_pref", "writer_pref"}
  /\ HAS_READ = [t \in Threads |-> FALSE]
  /\ pc = [t \in Threads |-> "idle"]
  /\ cur = [t \in Threads |-> NoCell]
  /\ via = [t \in Threads |-> 0]
  /\ arg = [t \in Threads |-> "none"]
  /\ local = [t \in Threads |-> NoVal]
  /\ seen = [t \in Threads |-> NoVal]
  /\ err = [t \in Threads |-> "none"]
  /\ log = [k \in Wrappers |-> <<>>]
  /\ sent = [k \in Wrappers |-> [t \in Threads |-> <<>>]]
  /\ released = [t \in Threads |-> FALSE]
  /\ nreads = [t \in Threads |-> 0]
  /\ renders = 0

\* ----------------------------------------------------------------- read()
\* A failing read() that resets the flag on its way out.
ReadReentrantClearsFlag(t, k) ==
  /\ pc[t] = "idle" /\ ~HoldsWrite(t)
  /\ AlreadyReading(t)
  /\ pc' = [pc EXCEPT ![t] = "panicking"]
  /\ err' = [err EXCEPT ![t] = "Thread already holds read guard"]
  /\ released' = [released EXCEPT ![t] = FALSE]
  /\ HAS_READ' = [HAS_READ EXCEPT ![t] = FALSE]
  /\ via' = [via EXCEPT ![t] = k]
  /\ UNCHANGED <<world, lockVars, envVars, cur, arg, local, seen, histVars>>

\* read(), lines 143-151, when the flag is already set: panic inside the
\* HAS_READ.with closure, before self.world.read() is reached.
ReadReentrant(t, k) ==
  /\ pc[t] = "idle" /\ ~HoldsWrite(t)
  /\ AlreadyReading(t)
  /\ pc' = [pc EXCEPT ![t] = "panicking"]
  /\ err' = [err EXCEPT ![t] = "Thread already holds read guard"]
  /\ released' = [released EXCEPT ![t] = FALSE]
  /\ via' = [via EXCEPT ![t] = k]
  /\ UNCHANGED <<world, lockVars, envVars, HAS_READ, cur, arg, local, seen, histVars>>

\* read(), lines 143-151, flag clear: set it, then go on to self.world.read().
SetFlag(t, k) ==
  /\ pc[t] = "idle" /\ ~HoldsWrite(t)
  /\ ~AlreadyReading(t)
  /\ HAS_READ' = [HAS_READ EXCEPT ![t] = TRUE]
  /\ pc' = [pc EXCEPT ![t] = "read_lock"]
  /\ cur' = [cur EXCEPT ![t] = HandleOf(t, k).world]
  /\ via' = [via EXCEPT ![t] = k]
  /\ UNCHANGED <<world, lockVars, policy, renders, arg, local, seen, err, histVars,
                 released>>

\* A client that calls read() any number of times.
ReadSetFlag(t, k) == SetFlag(t, k) /\ UNCHANGED nreads

\* read(), lines 152-155: self.world.read() returns Ok and the
\* WorldReadGuard is built.
ReadAcquire(t) ==
  /\ pc[t] = "read_lock"
  /\ CanRead(cur[t])
  /\ ~IsPoisoned(cur[t])
  /\ rlocks' = [rlocks EXCEPT ![cur[t]][t] = @ + 1]
  /\ seen' = [seen EXCEPT ![t] = world[cur[t]]]
  /\ pc' = [pc EXCEPT ![t] = "idle"]
  /\ cur' = [cur EXCEPT ![t] = NoCell]
  /\ via' = [via EXCEPT ![t] = 0]
  /\ released' = [released EXCEPT ![t] = FALSE]
  /\ UNCHANGED <<world, writer, poisoned, envVars, HAS_READ, arg, local, err, histVars>>

\* read(), line 153: self.world.read() returns Err(PoisonError) and unwrap()
\* panics; the lock guard inside the error is released again.  No
\* WorldReadGuard was built, so nothing clears HAS_READ.
ReadPoisoned(t) ==
  /\ pc[t] = "read_lock"
  /\ CanRead(cur[t])
  /\ IsPoisoned(cur[t])
  /\ pc' = [pc EXCEPT ![t] = "panicking"]
  /\ err' = [err EXCEPT ![t] = "PoisonError"]
  /\ cur' = [cur EXCEPT ![t] = NoCell]
  /\ via' = [via EXCEPT ![t] = 0]
  /\ released' = [released EXCEPT ![t] = FALSE]
  /\ UNCHANGED <<world, lockVars, envVars, HAS_READ, arg, local, seen, histVars>>

\* ------------------------------------------------- Drop for WorldReadGuard
\* drop(), lines 192-196: clear the thread's flag.
DropGuard(t, c) ==
  /\ pc[t] = "idle"
  /\ rlocks[c][t] > 0
  /\ HAS_READ' = [HAS_READ EXCEPT ![t] = FlagAfterDrop]
  /\ pc' = [pc EXCEPT ![t] = "drop_lock"]
  /\ cur' = [cur EXCEPT ![t] = c]
  /\ UNCHANGED <<world, lockVars, envVars, via, arg, local, seen, err, histVars, released>>

\* After drop() the field `guard` (the RwLockReadGuard) is dropped: the read
\* lock is released.
DropLock(t) ==
  /\ pc[t] = "drop_lock"
  /\ rlocks' = [rlocks EXCEPT ![cur[t]][t] = @ - 1]
  /\ seen' = [seen EXCEPT ![t] = NoVal]
  /\ pc' = [pc EXCEPT ![t] = "idle"]
  /\ cur' = [cur EXCEPT ![t] = NoCell]
  /\ released' = [released EXCEPT ![t] = TRUE]
  /\ UNCHANGED <<world, writer, poisoned, envVars, HAS_READ, via, arg, local, err, histVars>>

\* ------------------------------------------------------------------ msg()
\* A msg() that goes through the reentrancy check of read() first.
MsgCallGuarded(t, k, m) ==
  /\ pc[t] = "idle" /\ ~HoldsWrite(t)
  /\ ~AlreadyReading(t)
  /\ Dispatched < MaxMsgs
  /\ pc' = [pc EXCEPT ![t] = "msg_lock"]
  /\ cur' = [cur EXCEPT ![t] = HandleOf(t, k).world]
  /\ via' = [via EXCEPT ![t] = k]
  /\ arg' = [arg EXCEPT ![t] = m]
  /\ sent' = [sent EXCEPT ![k][t] = Append(@, m)]
  /\ UNCHANGED <<world, lockVars, envVars, HAS_READ, local, seen, err, log, released>>

\* msg(), line 123: the call begins and goes to self.world.write().
MsgCall(t, k, m) ==
  /\ pc[t] = "idle" /\ ~HoldsWrite(t)
  /\ Dispatched < MaxMsgs
  /\ pc' = [pc EXCEPT ![t] = "msg_lock"]
  /\ cur' = [cur EXCEPT ![t] = HandleOf(t, k).world]
  /\ via' = [via EXCEPT ![t] = k]
  /\ arg' = [arg EXCEPT ![t] = m]
  /\ sent' = [sent EXCEPT ![k][t] = Append(@, m)]
  /\ UNCHANGED <<world, lockVars, envVars, HAS_READ, local, seen, err, log, released>>

\* msg(), line 123: self.world.write() returns Ok; the handler starts on
\* the state it finds.
MsgAcquire(t) ==
  /\ pc[t] = "msg_lock"
  /\ CanWrite(cur[t])
  /\ ~IsPoisoned(cur[t])
  /\ writer' = [writer EXCEPT ![cur[t]] = t]
  /\ local' = [local EXCEPT ![t] = world[cur[t]]]
  /\ pc' = [pc EXCEPT ![t] = "msg_handler"]
  /\ UNCHANGED <<world, rlocks, poisoned, envVars, HAS_READ, cur, via, arg, seen, err,
                 histVars, released>>

\* msg(), line 123: self.world.write() returns Err(PoisonError) and unwrap()
\* panics; the lock is released again.
MsgPoisoned(t) ==
  /\ pc[t] = "msg_lock"
  /\ CanWrite(cur[t])
  /\ IsPoisoned(cur[t])
  /\ pc' = [pc EXCEPT ![t] = "panicking"]
  /\ err' = [err EXCEPT ![t] = "PoisonError"]
  /\ cur' = [cur EXCEPT ![t] = NoCell]
  /\ via' = [via EXCEPT ![t] = 0]
  /\ arg' = [arg EXCEPT ![t] = "none"]
  /\ UNCHANGED <<world, lockVars, envVars, HAS_READ, local, seen, histVars, released>>

\* msg(), lines 123-124: W::msg(&mut self, message) writes the state and
\* returns; the temporary write guard is dropped at the end of the statement.
MsgHandler(t) ==
  /\ pc[t] = "msg_handler"
  /\ arg[t] \notin {"Fault", "Dispatch"}
  /\ world' = [world EXCEPT ![cur[t]] = Applied(local[t], arg[t])]
  /\ log' = [log EXCEPT ![via[t]] = Append(@, <<t, arg[t]>>)]
  /\ writer' = [writer EXCEPT ![cur[t]] = IF @ = t THEN NoThread ELSE @]
  /\ pc' = [pc EXCEPT ![t] = "idle"]
  /\ local' = [local EXCEPT ![t] = NoVal]
  /\ cur' = [cur EXCEPT ![t] = NoCell]
  /\ via' = [via EXCEPT ![t] = 0]
  /\ arg' = [arg EXCEPT ![t] = "none"]
  /\ UNCHANGED <<rlocks, poisoned, envVars, HAS_READ, seen, err, sent, released>>

\* msg(), line 123: the handler panics after a partial write; unwinding drops
\* the write guard while the thread is panicking, which poisons the RwLock.
MsgHandlerPanic(t) ==
  /\ pc[t] = "msg_handler"
  /\ arg[t] = "Fault"
  /\ world' = [world EXCEPT ![cur[t]] = Applied(local[t], arg[t])]
  /\ log' = [log EXCEPT ![via[t]] = Append(@, <<t, arg[t]>>)]
  /\ writer' = [writer EXCEPT ![cur[t]] = IF @ = t THEN NoThread ELSE @]
  /\ poisoned' = [poisoned EXCEPT ![cur[t]] = TRUE]
  /\ pc' = [pc EXCEPT ![t] = "panicking"]
  /\ err' = [err EXCEPT ![t] = "handler panicked"]
  /\ local' = [local EXCEPT ![t] = NoVal]
  /\ cur' = [cur EXCEPT ![t] = NoCell]
  /\ via' = [via EXCEPT ![t] = 0]
  /\ arg' = [arg EXCEPT ![t] = "none"]
  /\ UNCHANGED <<rlocks, envVars, HAS_READ, seen, sent, released>>

\* msg(), line 123, called by a thread that holds a read guard of the same
\* lock: self.world.write() either blocks for ever behind the thread's own
\* read lock (no step) or panics where the platform's lock detects the
\* relock (std::sync::RwLock::write: "might panic when called if the lock is
\* already held by the current thread").  No write guard existed, so the
\* lock is not poisoned.
MsgSelfPanic(t) ==
  /\ pc[t] = "msg_lock"
  /\ rlocks[cur[t]][t] > 0
  /\ pc' = [pc EXCEPT ![t] = "panicking"]
  /\ err' = [err EXCEPT ![t] = "rwlock write lock would result in deadlock"]
  /\ cur' = [cur EXCEPT ![t] = NoCell]
  /\ via' = [via EXCEPT ![t] = 0]
  /\ arg' = [arg EXCEPT ![t] = "none"]
  /\ UNCHANGED <<world, lockVars, envVars, HAS_READ, local, seen, histVars, released>>

\* ------------------------------------- a handler that dispatches (msg())
\* A world that keeps a clone of its own wrapper can dispatch from its
\* handler.  "Dispatch" is a message whose handler calls msg("Increment") on
\* that clone.  msg(), line 123, runs the handler on the temporary write
\* guard, so the inner msg() reaches self.world.write() while the outer
\* guard is still held by the same thread.
MsgHandlerDispatch(t) ==
  /\ pc[t] = "msg_handler"
  /\ arg[t] = "Dispatch"
  /\ pc' = [pc EXCEPT ![t] = "nested_lock"]
  /\ sent' = [sent EXCEPT ![via[t]][t] = Append(@, "Increment")]
  /\ UNCHANGED <<world, lockVars, envVars, HAS_READ, cur, via, arg, local, seen, err, log,
                 released>>

\* The inner self.world.write() on a lock the thread already holds either
\* blocks for ever (no step) or panics (std::sync::RwLock::write: "might
\* panic when called if the lock is already held by the current thread").
\* The panic unwinds through the outer handler and drops the outer write
\* guard, which poisons the lock.
NestedPanic(t) ==
  /\ pc[t] = "nested_lock"
  /\ writer[cur[t]] = t
  /\ writer' = [writer EXCEPT ![cur[t]] = NoThread]
  /\ poisoned' = [poisoned EXCEPT ![cur[t]] = TRUE]
  /\ pc' = [pc EXCEPT ![t] = "panicking"]
  /\ err' = [err EXCEPT ![t] = "rwlock write lock would result in deadlock"]
  /\ local' = [local EXCEPT ![t] = NoVal]
  /\ cur' = [cur EXCEPT ![t] = NoCell]
  /\ via' = [via EXCEPT ![t] = 0]
  /\ arg' = [arg EXCEPT ![t] = "none"]
  /\ UNCHANGED <<world, rlocks, envVars, HAS_READ, seen, histVars, released>>

\* ------------------------------------------------ write() (test-utils)
\* write(), line 167: the call begins and goes to self.world.write().
WriteCall(t, k) ==
  /\ pc[t] = "idle" /\ ~HoldsWrite(t)
  /\ pc' = [pc EXCEPT ![t] = "write_lock"]
  /\ cur' = [cur EXCEPT ![t] = HandleOf(t, k).world]
  /\ via' = [via EXCEPT ![t] = k]
  /\ UNCHANGED <<world, lockVars, envVars, HAS_READ, arg, local, seen, err, histVars, released>>

\* write(), line 167: the RwLockWriteGuard is returned to the caller.
WriteAcquire(t) ==
  /\ pc[t] = "write_lock"
  /\ CanWrite(cur[t])
  /\ ~IsPoisoned(cur[t])
  /\ writer' = [writer EXCEPT ![cur[t]] = t]
  /\ pc' = [pc EXCEPT ![t] = "idle"]
  /\ UNCHANGED <<world, rlocks, poisoned, envVars, HAS_READ, cur, via, arg, local, seen, err,
                 histVars, released>>

\* write(), line 167: Err(PoisonError), unwrap() panics.
WritePoisoned(t) ==
  /\ pc[t] = "write_lock"
  /\ CanWrite(cur[t])
  /\ IsPoisoned(cur[t])
  /\ pc' = [pc EXCEPT ![t] = "panicking"]
  /\ err' = [err EXCEPT ![t] = "PoisonError"]
  /\ cur' = [cur EXCEPT ![t] = NoCell]
  /\ via' = [via EXCEPT ![t] = 0]
  /\ UNCHANGED <<world, lockVars, envVars, HAS_READ, arg, local, seen, histVars, released>>

\* The holder of a write() guard sets up state through it (DerefMut), here
\* by applying the handler directly.
WriteMutate(t, m) ==
  /\ HoldsWrite(t)
  /\ m # "Fault"
  /\ Dispatched < MaxMsgs
  /\ world' = [world EXCEPT ![cur[t]] = handler(@, m)]
  /\ log' = [log EXCEPT ![via[t]] = Append(@, <<t, m>>)]
  /\ sent' = [sent EXCEPT ![via[t]][t] = Append(@, m)]
  /\ UNCHANGED <<lockVars, envVars, HAS_READ, pc, cur, via, arg, local, seen, err, released>>

\* The write() guard goes out of scope.
WriteDrop(t) ==
  /\ HoldsWrite(t)
  /\ writer' = [writer EXCEPT ![cur[t]] = IF @ = t THEN NoThread ELSE @]
  /\ cur' = [cur EXCEPT ![t] = NoCell]
  /\ via' = [via EXCEPT ![t] = 0]
  /\ UNCHANGED <<world, rlocks, poisoned, envVars, HAS_READ, pc, arg, local, seen, err,
                 histVars, released>>

\* ----------------------------------------------------------------- panics
\* The panic unwinds through the scope that owns the thread's
\* WorldReadGuard: drop(), lines 192-196, runs.
UnwindGuard(t, c) ==
  /\ pc[t] = "panicking"
  /\ rlocks[c][t] > 0
  /\ HAS_READ' = [HAS_READ EXCEPT ![t] = FlagAfterDrop]
  /\ pc' = [pc EXCEPT ![t] = "unwind_lock"]
  /\ cur' = [cur EXCEPT ![t] = c]
  /\ UNCHANGED <<world, lockVars, envVars, via, arg, local, seen, err, histVars, released>>

\* ... and the RwLockReadGuard field is dropped (dropping a read guard does
\* not poison the lock).
UnwindLock(t) ==
  /\ pc[t] = "unwind_lock"
  /\ rlocks' = [rlocks EXCEPT ![cur[t]][t] = @ - 1]
  /\ seen' = [seen EXCEPT ![t] = NoVal]
  /\ pc' = [pc EXCEPT ![t] = "panicking"]
  /\ cur' = [cur EXCEPT ![t] = NoCell]
  /\ released' = [released EXCEPT ![t] = TRUE]
  /\ UNCHANGED <<world, writer, poisoned, envVars, HAS_READ, via, arg, local, err, histVars>>

\* The panic reaches the top of the thread: the thread ends, and its
\* thread-local HAS_READ with it.
ThreadExit(t) ==
  /\ pc[t] = "panicking"
  /\ HeldReads(t) = {}
  /\ pc' = [pc EXCEPT ![t] = "done"]
  /\ err' = [err EXCEPT ![t] = "none"]
  /\ HAS_READ' = [HAS_READ EXCEPT ![t] = FALSE]
  /\ released' = [released EXCEPT ![t] = FALSE]
  /\ via' = [via EXCEPT ![t] = 0]
  /\ UNCHANGED <<world, lockVars, envVars, cur, arg, local, seen, histVars>>

\* The caller wrapped the failing call in catch_unwind: the thread goes on,
\* with whatever it held outside the call.
CatchUnwind(t) ==
  /\ pc[t] = "panicking"
  /\ pc' = [pc EXCEPT ![t] = "idle"]
  /\ err' = [err EXCEPT ![t] = "none"]
  /\ via' = [via EXCEPT ![t] = 0]
  /\ UNCHANGED <<world, lockVars, envVars, HAS_READ, cur, arg, local, seen, histVars,
                 released>>

\* ------------------------------------------------------------------- Next
Next ==
  \E t \in Threads :
    \/ \E k \in Wrappers : ReadReentrant(t, k)
    \/ \E k \in Wrappers : ReadSetFlag(t, k)
    \/ ReadAcquire(t)
    \/ ReadPoisoned(t)
    \/ \E c \in Cells : DropGuard(t, c)
    \/ DropLock(t)
    \/ \E k \in Wrappers, m \in Messages : MsgCall(t, k, m)
    \/ MsgAcquire(t)
    \/ MsgPoisoned(t)
    \/ MsgHandler(t)
    \/ MsgHandlerPanic(t)
    \/ \E k \in Wrappers : WriteCall(t, k)
    \/ WriteAcquire(t)
    \/ WritePoisoned(t)
    \/ \E m \in Messages : WriteMutate(t, m)
    \/ WriteDrop(t)
    \/ \E c \in Cells : UnwindGuard(t, c)
    \/ UnwindLock(t)
    \/ ThreadExit(t)
    \/ CatchUnwind(t)

Spec == Init /\ [][Next]_vars

\* ------------------------------------------- well-behaved, bounded clients
\* The clients of the scenarios: each thread begins at most MaxReads reads
\* while it holds no guard (a read() under its own guard is not counted: it
\* is the call the reentrancy check is for), dispatches only messages whose
\* handler returns, never calls msg() while it holds a read guard of its
\* own, and lets a panic end the thread.
ClientRead(t, k) ==
  /\ (HeldReads(t) = {} => nreads[t] < MaxReads)
  /\ SetFlag(t, k)
  /\ nreads' = [nreads EXCEPT ![t] = IF HeldReads(t) = {} THEN @ + 1 ELSE @]

ClientMsg(t, k, m) ==
  /\ HeldReads(t) = {}
  /\ m # "Fault"
  /\ MsgCall(t, k, m)

\* The steps a running thread takes by itself once it is scheduled and the
\* lock it waits for is free.
Progress(t) ==
  \/ ReadAcquire(t)
  \/ \E c \in Cells : DropGuard(t, c)
  \/ DropLock(t)
  \/ MsgAcquire(t)
  \/ MsgHandler(t)
  \/ \E c \in Cells : UnwindGuard(t, c)
  \/ UnwindLock(t)
  \/ ThreadExit(t)

ClientNext ==
  \E t \in Threads :
    \/ \E k \in Wrappers : ClientRead(t, k)
    \/ \E k \in Wrappers : ReadReentrant(t, k)
    \/ \E k \in Wrappers, m \in Messages : ClientMsg(t, k, m)
    \/ Progress(t)

FairSpec ==
  Init /\ [][ClientNext]_vars /\ \A t \in Threads : WF_vars(Progress(t))

\* ------------------------------------------- clients of a dispatching world
\* The messages of a world whose handler may dispatch.
DispatchMessages == {"Increment", "Dispatch"}

ReentrantNext ==
  \E t \in Threads :
    \/ \E k \in Wrappers, m \in DispatchMessages : MsgCall(t, k, m)
    \/ MsgAcquire(t)
    \/ MsgHandler(t)
    \/ MsgHandlerDispatch(t)
    \/ NestedPanic(t)
    \/ MsgPoisoned(t)
    \/ \E k \in Wrappers : ReadSetFlag(t, k)
    \/ ReadAcquire(t)
    \/ ReadPoisoned(t)
    \/ \E c \in Cells : DropGuard(t, c)
    \/ DropLock(t)
    \/ ThreadExit(t)

ReentrantSpec == Init /\ [][ReentrantNext]_vars

\* ------------------------------------------------ the test, lines 229-255
\* deadlock_prevention_same_thread_double_read_another_thread_write.
\* Thread A owns `world`: it reads (guard_1), spawns B, reads again
\* (guard_3, which panics) and unwinds.  Thread B calls world_clone1.msg(())
\* at some point after it was spawned under guard_1.  The main thread joins
\* A and then evaluates world_clone2.read().was_mutated, a temporary guard.
\* The handler of TestWorld sets was_mutated; here it is the Increment of
\* the counter from 0.  B may go on to dispatch further messages (up to
\* MaxMsgs); the main thread ends in join.expect, line 254, which panics with
\* A's panic.
ThreadA == 1
ThreadB == 2
ThreadMain == 3

\* line 254: join.expect("Second read attempt panicked") on the Err that
\* joining the panicked thread A returned.
JoinExpect(t) ==
  /\ pc[t] = "idle" /\ HeldReads(t) = {}
  /\ pc[ThreadA] = "done"
  /\ released[t]
  /\ pc' = [pc EXCEPT ![t] = "panicking"]
  /\ err' = [err EXCEPT ![t] = "Second read attempt panicked"]
  /\ UNCHANGED <<world, lockVars, envVars, HAS_READ, cur, via, arg, local, seen, histVars,
                 released>>

TestNext ==
  \/ ReadSetFlag(ThreadA, 1)
  \/ ReadAcquire(ThreadA)
  \/ GuardLive(ThreadA) /\ ReadReentrant(ThreadA, 1)
  \/ \E c \in Cells : UnwindGuard(ThreadA, c)
  \/ UnwindLock(ThreadA)
  \/ ThreadExit(ThreadA)
  \/ /\ sent[1][ThreadB] = <<>> => GuardLive(ThreadA)
     /\ MsgCall(ThreadB, 1, "Increment")
  \/ MsgAcquire(ThreadB)
  \/ MsgHandler(ThreadB)
  \/ pc[ThreadA] = "done" /\ ReadSetFlag(ThreadMain, 1)
  \/ ReadAcquire(ThreadMain)
  \/ \E c \in Cells : DropGuard(ThreadMain, c)
  \/ DropLock(ThreadMain)
  \/ JoinExpect(ThreadMain)
  \/ ThreadExit(ThreadMain)

TestSpec == Init /\ [][TestNext]_vars

\* ----------------------------------------- two unrelated wrappers, readers
\* A second AppWorldWrapper built by its own new(): it owns cell 2, a
\* different state and a different RwLock.  HAS_READ, lines 128-130, is
\* declared once in the impl block, so the two wrappers use the same
\* thread-local.  The clients read, drop, fail and recover on either.
TwoWrappers == {1, 2}

TwoNext ==
  \E t \in Threads :
    \/ \E k \in TwoWrappers : ReadReentrant(t, k)
    \/ \E k \in TwoWrappers : ReadSetFlag(t, k)
    \/ ReadAcquire(t)
    \/ \E c \in Cells : DropGuard(t, c)
    \/ DropLock(t)
    \/ \E c \in Cells : UnwindGuard(t, c)
    \/ UnwindLock(t)
    \/ ThreadExit(t)
    \/ CatchUnwind(t)

TwoSpec == Init /\ [][TwoNext]_vars

\* ------------------------------------ clients that dispatch while reading
\* Threads that read, drop and call msg(), also under their own guard, on a
\* platform whose lock may panic on a relock by the same thread.
SelfNext ==
  \E t \in Threads :
    \/ \E k \in Wrappers : ReadSetFlag(t, k)
    \/ ReadAcquire(t)
    \/ \E c \in Cells : DropGuard(t, c)
    \/ DropLock(t)
    \/ \E k \in Wrappers : MsgCall(t, k, "Increment")
    \/ MsgAcquire(t)
    \/ MsgHandler(t)
    \/ MsgSelfPanic(t)
    \/ \E c \in Cells : UnwindGuard(t, c)
    \/ UnwindLock(t)
    \/ ThreadExit(t)

SelfSpec == Init /\ [][SelfNext]_vars

\* ------------------------------------------------------ history operators
\* The messages of thread t among those applied through wrapper k, in order.
LogOf(k, t) ==
  LET RECURSIVE Pick(_)
      Pick(es) == IF es = <<>> THEN <<>>
                  ELSE IF Head(es)[1] = t THEN <<Head(es)[2]>> \o Pick(Tail(es))
                  ELSE Pick(Tail(es))
  IN Pick(log[k])

\* The messages applied through wrapper k, in the order they were applied.
Applications(k) == [i \in 1..Len(log[k]) |-> log[k][i][2]]

ReentrancyError == "Thread already holds read guard"

\* ================================================================ claims

\* C1: reader/writer exclusion.  For every lock, at most one thread is in
\* the write section (running msg()'s handler or holding a write() guard),
\* no read guard is out while a thread is in the write section, and the
\* value a thread saw when it took its read guard is still the state: the
\* state does not change under a held read guard.
C1_ReaderWriterExclusion ==
  \A c \in Cells :
    /\ Cardinality(InWriteSection(c)) <= 1
    /\ (InWriteSection(c) # {} => \A t \in Threads : rlocks[c][t] = 0)
    /\ \A t \in Threads : rlocks[c][t] > 0 => seen[t] = world[c]

\* Two threads hold read guards on a state that was written before, while a
\* third waits in msg() for the write lock.
C1_Witness ==
  \E t, u, v \in Threads :
    /\ t # u
    /\ rlocks[1][t] > 0 /\ rlocks[1][u] > 0
    /\ pc[v] = "msg_lock" /\ cur[v] = 1
    /\ log[1] # <<>>

\* C2: a read() by a thread that holds a live guard is the reentrancy panic:
\* the step never reaches self.world.read(), leaves the lock and the flag as
\* they are, and is possible in every such state, whoever waits for the lock.
C2_ReentrantReadFailsFast ==
  /\ [][\A t \in Threads :
         (GuardLive(t) /\ pc[t] = "idle" /\ pc'[t] \in {"read_lock", "panicking"})
           => /\ pc'[t] = "panicking"
              /\ err'[t] = ReentrancyError
              /\ UNCHANGED <<lockVars, HAS_READ, cur, world>>]_vars
  /\ [](\A t \in Threads :
         (GuardLive(t) /\ pc[t] = "idle") => ENABLED ReadReentrant(t, 1))

\* A thread's second read() has panicked under its live guard while another
\* thread waits in msg() for the write lock.
C2_Witness ==
  \E t, b \in Threads :
    /\ pc[t] = "panicking" /\ err[t] = ReentrancyError
    /\ rlocks[1][t] > 0
    /\ pc[b] = "msg_lock" /\ cur[b] = 1

\* C3: no reentrant-read deadlock.  A thread never waits for the read lock
\* while it holds a read guard, so it is never blocked behind the writer
\* that its own guard blocks; when its second read() has panicked, unwinding
\* releases its guard, and a msg() that was waiting for the write lock is
\* granted it and applied.
C3_NoReentrantDeadlock ==
  /\ [](\A a \in Threads : ~(HeldReads(a) # {} /\ pc[a] = "read_lock"))
  /\ \A a \in Threads :
       (pc[a] = "panicking" /\ err[a] = ReentrancyError) ~> (HeldReads(a) = {})
  /\ \A a, b \in Threads :
       (pc[a] = "panicking" /\ err[a] = ReentrancyError /\ pc[b] = "msg_lock")
         ~> (pc[b] = "idle" /\ LogOf(1, b) = sent[1][b])

\* On a lock that prefers writers: A holds a guard, B waits in msg() for the
\* write lock, and A's second read() has just panicked.
C3_Witness ==
  \E a, b \in Threads :
    /\ policy = "writer_pref"
    /\ pc[a] = "panicking" /\ err[a] = ReentrancyError /\ rlocks[1][a] > 0
    /\ pc[b] = "msg_lock" /\ cur[b] = 1

\* No writer is active on cell c: none is in the write section, none holds
\* the lock, none is waiting for it.
NoWriterActive(c) ==
  /\ InWriteSection(c) = {}
  /\ writer[c] = NoThread
  /\ WaitingWriters(c) = {}

\* After a guard drop the thread holds no guard, and the next read() call it
\* makes passes the reentrancy check and goes on to the lock.
ReadAfterReleasePassesCheck ==
  /\ [](\A t \in Threads : released[t] => HeldReads(t) = {})
  /\ [][\A t \in Threads :
         (released[t] /\ pc[t] = "idle" /\ pc'[t] \in {"read_lock", "panicking"})
           => pc'[t] = "read_lock"]_vars

\* C4 as stated: after its guard was dropped, a thread's next read() does
\* not fail with the reentrancy error and, if no writer is active, obtains
\* a new guard.
C4_ReadAfterRelease_AsStated ==
  /\ ReadAfterReleasePassesCheck
  /\ [](\A t \in Threads :
         (released[t] /\ pc[t] = "read_lock" /\ NoWriterActive(cur[t]))
           => ENABLED ReadAcquire(t))

\* C4, amended: after its guard was dropped, a thread's next read() does not
\* fail with the reentrancy error and, if no writer is active and the lock
\* is not poisoned, obtains a new guard.
C4_ReadAfterRelease ==
  /\ ReadAfterReleasePassesCheck
  /\ [](\A t \in Threads :
         (released[t] /\ pc[t] = "read_lock" /\ NoWriterActive(cur[t])
            /\ ~poisoned[cur[t]])
           => ENABLED ReadAcquire(t))

\* A thread that dropped a guard has called read() again, passed the check
\* and stands at a healthy lock with no writer active, while another thread
\* holds a read guard.
C4_Witness ==
  \E t, u \in Threads :
    /\ released[t] /\ pc[t] = "read_lock" /\ cur[t] = 1
    /\ NoWriterActive(1) /\ ~poisoned[1]
    /\ u # t /\ rlocks[1][u] > 0

IsPrefix(p, q) == Len(p) <= Len(q) /\ p = SubSeq(q, 1, Len(p))

\* Thread t is inside a msg() call.
InMsg(t) == pc[t] \in {"msg_lock", "msg_handler"}

\* Every msg() call made so far through wrapper k has returned: none is in
\* progress and none has panicked (a panic in msg() is a handler fault or a
\* PoisonError, and either way the lock is poisoned).
AllReturned(k) ==
  /\ \A t \in Threads : ~InMsg(t)
  /\ ~poisoned[new(k).world]

\* C5: serializable writes, no lost update.  Handler applications never
\* overlap; the state always equals the handler folded over the initial
\* state along the order in which the messages were applied under the write
\* lock; that order keeps each thread's own dispatch order; and once every
\* msg() call has returned, it contains every dispatched message (two
\* threads that each dispatched one Increment end with counter 2).
C5_SerializableWrites ==
  /\ \A c \in Cells :
       Cardinality({t \in Threads : pc[t] = "msg_handler" /\ cur[t] = c}) <= 1
  /\ world[new(1).world] = FoldLeft(InitialWorld, Applications(1))
  /\ \A t \in Threads : IsPrefix(LogOf(1, t), sent[1][t])
  /\ AllReturned(1) =>
       /\ \A t \in Threads : LogOf(1, t) = sent[1][t]
       /\ \A t, u \in Threads :
            (/\ t # u
             /\ sent[1][t] = <<"Increment">> /\ sent[1][u] = <<"Increment">>
             /\ \A v \in Threads \ {t, u} : sent[1][v] = <<>>)
              => world[new(1).world] = 2

\* Two threads have each dispatched one Increment and both calls have
\* returned.
C5_Witness ==
  \E t, u \in Threads :
    /\ t # u
    /\ log[1] = << <<t, "Increment">>, <<u, "Increment">> >>
    /\ world[1] = 2
    /\ AllReturned(1)

\* C6: single-thread dispatch is a left fold.  When one thread alone has
\* dispatched messages and all its msg() calls have returned, the state is
\* the handler folded over the initial state and its messages in dispatch
\* order, each applied exactly once.
C6_SingleThreadFold ==
  \A t \in Threads :
    (/\ \A u \in Threads \ {t} : sent[1][u] = <<>>
     /\ AllReturned(1)
     /\ ~HoldsWrite(t))
      => /\ world[new(1).world] = FoldLeft(InitialWorld, sent[1][t])
         /\ Applications(1) = sent[1][t]

\* One thread alone has dispatched Reset then Increment, and both calls have
\* returned.
C6_Witness ==
  \E t \in Threads :
    /\ sent[1][t] = <<"Reset", "Increment">>
    /\ \A u \in Threads \ {t} : sent[1][u] = <<>>
    /\ AllReturned(1)
    /\ world[1] = 1

\* C7: a writer waits for the readers, then its write is visible.  The state
\* and the history of applications do not change while any read guard is
\* out; a msg() waiting for the write lock is eventually granted it and
\* applied (the guards ahead of it being dropped); the message of every
\* msg() call that has returned is among those applied, and every live read
\* guard sees the state that results from all of them.
C7_WriterWaitsThenVisible ==
  /\ [][\A c \in Cells :
         (\E t \in Threads : rlocks[c][t] > 0)
           => (world'[c] = world[c] /\ log' = log)]_vars
  /\ \A b \in Threads :
       (pc[b] = "msg_lock") ~> (pc[b] = "idle" /\ LogOf(1, b) = sent[1][b])
  /\ [](\A b \in Threads : ~InMsg(b) => LogOf(1, b) = sent[1][b])
  /\ [](\A t \in Threads :
         GuardLive(t) => seen[t] = FoldLeft(InitialWorld, Applications(1)))

\* A holds a guard, taken after C's Increment returned and showing it, and
\* B waits in msg() for the write lock behind A's guard.
C7_Witness ==
  \E a, b, c \in Threads :
    /\ GuardLive(a) /\ rlocks[1][a] > 0 /\ seen[a] = 1
    /\ log[1] = << <<c, "Increment">> >>
    /\ pc[b] = "msg_lock" /\ cur[b] = 1

\* Thread t is inside a call that has reached the lock of cell c.
AtLock(t, c) ==
  pc[t] \in {"read_lock", "msg_lock", "write_lock"} /\ cur[t] = c

\* C8: poisoning is permanent and fatal.  Once a handler has panicked inside
\* the write section of msg(), the lock stays poisoned; from then on no
\* message is applied and the state is not written; no read guard and no
\* write guard over the state exists or is returned; every call that
\* reaches the lock leaves it only by panicking on the PoisonError, and a
\* msg() or write() that has reached it can do so at once (it does not
\* hang), as can a read() once the lock admits readers.
C8_PoisonPermanentFatal ==
  /\ [](\A c \in Cells : poisoned[c] =>
         /\ writer[c] = NoThread
         /\ \A t \in Threads : rlocks[c][t] = 0)
  /\ [][\A c \in Cells : poisoned[c] =>
         /\ poisoned'[c]
         /\ world'[c] = world[c]
         /\ log' = log
         /\ writer'[c] = NoThread
         /\ \A t \in Threads :
              /\ rlocks'[c][t] = 0
              /\ AtLock(t, c) =>
                   \/ pc'[t] = pc[t]
                   \/ pc'[t] = "panicking" /\ err'[t] = "PoisonError"]_vars
  /\ [](\A t \in Threads : \A c \in Cells :
         (poisoned[c] /\ cur[t] = c) =>
           /\ pc[t] = "msg_lock" => ENABLED MsgPoisoned(t)
           /\ pc[t] = "write_lock" => ENABLED WritePoisoned(t)
           /\ (pc[t] = "read_lock" /\ CanRead(c)) => ENABLED ReadPoisoned(t))

\* The original handle's thread has panicked in a handler; since then a
\* clone's read() has failed on the PoisonError and another clone's msg()
\* stands at the poisoned lock.
C8_Witness ==
  \E t, u \in Threads :
    /\ poisoned[1] /\ pc[1] = "done"
    /\ t # 1 /\ u # 1 /\ t # u
    /\ pc[t] = "panicking" /\ err[t] = "PoisonError" /\ HAS_READ[t]
    /\ pc[u] = "msg_lock" /\ cur[u] = 1

\* C9: clones share one state.  Every handle of a wrapper, the original and
\* each clone, points at the same cell; a live read guard obtained through
\* any handle shows the handler folded over all messages applied through
\* any handle; and while a thread is in the write section through one
\* handle, no thread holds a read guard or is in the write section through
\* another.
C9_ClonesShareState ==
  /\ \A k \in Wrappers : \A t, u \in Threads :
       HandleOf(t, k).world = HandleOf(u, k).world
  /\ \A t \in Threads :
       GuardLive(t) => seen[t] = FoldLeft(InitialWorld, Applications(1))
  /\ \A t \in Threads :
       (pc[t] = "msg_handler" \/ HoldsWrite(t)) =>
         \A u \in Threads :
           /\ \A c \in Cells : rlocks[c][u] = 0
           /\ u # t => ~(pc[u] = "msg_handler" \/ HoldsWrite(u))

\* A clone's thread applied an Increment through msg(); afterwards the
\* original handle's thread and another clone's thread each hold a read
\* guard that shows it.
C9_Witness ==
  /\ log[1] = << <<2, "Increment">> >>
  /\ GuardLive(1) /\ seen[1] = 1
  /\ GuardLive(3) /\ seen[3] = 1

\* Thread t holds no read guard and is in no call.
HoldsNothing(t) == pc[t] = "idle" /\ HeldReads(t) = {} /\ ~HoldsWrite(t)

C11_ReentrantDispatchFresh ==
  \A t \in Threads :
    pc[t] = "nested_lock" =>
      /\ writer[cur[t]] # t
      /\ ((\A u \in Threads \ {t} : writer[cur[t]] # u /\ rlocks[cur[t]][u] = 0)
            => CanWrite(cur[t]))

\* C12: conditional notification.  With a predicate should_rerender that is
\* true of every message, each dispatch invokes the render callback exactly
\* once after its write section: when no msg() is in progress, the callback
\* has been invoked once for every message applied.
C12_RenderOncePerDispatch ==
  (\A t \in Threads : ~InMsg(t)) => renders = Len(log[1])

\* C13: a pending write is applied before later reads.  In the test, when
\* B's msg() was issued under A's first guard and A's second read() has
\* panicked and A has terminated, the guard the main thread obtains
\* afterwards shows B's mutation.
C13_PendingWriteBeforeLaterRead ==
  (/\ sent[1][ThreadB] # <<>>
   /\ pc[ThreadA] = "done"
   /\ GuardLive(ThreadMain))
    => seen[ThreadMain] # InitialWorld

\* C14: the flag tracks the guard on every exit path.  A thread whose
\* HAS_READ is true either owns a live WorldReadGuard or is executing
\* read(); a thread that is between calls and owns no guard is not rejected
\* by the reentrancy check of its next read().
C14_FlagTracksGuard ==
  \A t \in Threads :
    /\ HAS_READ[t] => (GuardLive(t) \/ pc[t] = "read_lock")
    /\ (pc[t] = "idle" /\ HeldReads(t) = {}) => ~AlreadyReading(t)

\* Thread t's read() fails with the reentrancy error in this step.
FailsReentrant(t) ==
  /\ pc[t] = "idle" /\ AlreadyReading(t)
  /\ pc'[t] = "panicking" /\ err'[t] = ReentrancyError

\* C15: a failed reentrant read changes nothing.  The step in which read()
\* fails with the reentrancy error changes only the caller's own position:
\* its guard stays live and shows the same state, its flag stays true, the
\* lock (reader counts, writer, poison flag), the state, the history and
\* every other thread are as before; and when the first guard is dropped
\* afterwards, by scope end or by unwinding, the thread holds no read lock
\* and its flag is false.
C15_FailedReadChangesNothing ==
  /\ [][\A t \in Threads : FailsReentrant(t) =>
         /\ UNCHANGED <<world, lockVars, envVars, HAS_READ, cur, arg, local, seen,
                        histVars>>
         /\ HAS_READ'[t]
         /\ GuardLive(t) => GuardLive(t)'
         /\ \A u \in Threads \ {t} : pc'[u] = pc[u] /\ err'[u] = err[u]]_vars
  /\ [][\A t \in Threads :
         (pc[t] \in {"drop_lock", "unwind_lock"} /\ pc'[t] # pc[t])
           => (HeldReads(t)' = {} /\ ~HAS_READ'[t])]_vars

\* A thread's second read() has failed under its live guard, with the flag
\* still set, while a second thread holds a guard too and a third waits in
\* msg() for the write lock.
C15_Witness ==
  \E t, u, b \in Threads :
    /\ pc[t] = "panicking" /\ err[t] = ReentrancyError
    /\ GuardLive(t) /\ HAS_READ[t] /\ seen[t] = world[1]
    /\ u # t /\ GuardLive(u)
    /\ pc[b] = "msg_lock" /\ ~poisoned[1]

\* Thread t is between calls and owns a live guard of wrapper k only.
ReadingOnly(t, k) ==
  /\ pc[t] = "idle" /\ GuardLive(t)
  /\ HeldReads(t) = {new(k).world}

\* C16: the reentrancy flag is per thread, not per container.  A thread that
\* owns a live guard of one wrapper fails with the reentrancy error when it
\* calls read() on the other, unrelated wrapper, and cannot get a guard of
\* it; a thread never owns guards of both; the drop of a guard of either
\* wrapper clears the thread's one flag; and no step of one thread changes
\* another thread's flag, so a thread whose own flag is clear passes the
\* check on either wrapper whatever the other threads hold.
C16_FlagPerThread ==
  /\ [](\A t \in Threads : \A k, j \in TwoWrappers :
         (ReadingOnly(t, k) /\ j # k) =>
           /\ ENABLED ReadReentrant(t, j)
           /\ ~ENABLED SetFlag(t, j))
  /\ [](\A t \in Threads : Cardinality(HeldReads(t)) <= 1)
  /\ [][\A t \in Threads : \A c \in Cells :
         (pc[t] \in {"idle", "panicking"} /\ rlocks[c][t] > 0
            /\ pc'[t] \in {"drop_lock", "unwind_lock"})
           => ~HAS_READ'[t]]_vars
  /\ [][\A t, u \in Threads :
         (u # t /\ pc'[t] # pc[t]) => HAS_READ'[u] = HAS_READ[u]]_vars
  /\ [](\A u \in Threads : \A k \in TwoWrappers :
         (pc[u] = "idle" /\ ~HAS_READ[u]) => ENABLED SetFlag(u, k))

\* A thread that owns a live guard of wrapper 1 has called read() on wrapper
\* 2 and failed with the reentrancy error, while another thread owns a
\* guard of wrapper 2.
C16_Witness ==
  \E t, u \in Threads :
    /\ pc[t] = "panicking" /\ err[t] = ReentrancyError /\ via[t] = 2
    /\ GuardLive(t) /\ HeldReads(t) = {new(1).world}
    /\ u # t /\ GuardLive(u) /\ HeldReads(u) = {new(2).world}

\* Thread t is in msg(), at the write lock of a cell it holds a read guard of.
SelfLocked(t) == pc[t] = "msg_lock" /\ rlocks[cur[t]][t] > 0

\* The steps of msg() leave every thread's flag as it is, and a thread that
\* owns a live guard can call msg(): it meets no reentrancy check.
MsgOutsideGuard ==
  /\ [][\A t \in Threads :
         (pc[t] \in {"msg_lock", "msg_handler"} \/ pc'[t] = "msg_lock")
           => (pc'[t] = pc[t] \/ HAS_READ' = HAS_READ)]_vars
  /\ [](\A t \in Threads :
         (pc[t] = "idle" /\ GuardLive(t) /\ Dispatched < MaxMsgs)
           => ENABLED MsgCall(t, 1, "Increment"))

\* C17, as stated: msg() is outside the reentrancy guard, and a thread that
\* calls msg() while it holds a live guard waits for the write lock behind
\* its own read guard and never returns.
C17_SelfDeadlock_AsStated ==
  /\ MsgOutsideGuard
  /\ [][\A t \in Threads : SelfLocked(t) => pc'[t] = "msg_lock"]_vars

\* C17, amended: msg() is outside the reentrancy guard, and a thread that
\* calls msg() while it holds a live guard is never granted the write lock
\* and never returns from msg(): it waits behind its own read guard for
\* ever or, where the lock detects the relock, panics, with the lock's
\* error and not the reentrancy error; meanwhile the state and the history
\* stay as they are and the thread keeps its guard and its flag.
C17_SelfDeadlock ==
  /\ MsgOutsideGuard
  /\ [](\A t \in Threads : SelfLocked(t) => ~ENABLED MsgAcquire(t))
  /\ [][\A t \in Threads : SelfLocked(t) =>
         /\ pc'[t] \in {"msg_lock", "panicking"}
         /\ pc'[t] = "panicking" => err'[t] \notin {"none", ReentrancyError}
         /\ world' = world /\ log' = log
         /\ HAS_READ'[t] /\ rlocks'[cur[t]][t] = rlocks[cur[t]][t]]_vars

\* One thread alone has acted: it took a read guard, called msg() under it
\* and stands at the write lock behind its own guard.
C17_Witness ==
  \E t \in Threads :
    /\ SelfLocked(t) /\ HAS_READ[t] /\ cur[t] = 1
    /\ sent[1][t] = <<"Increment">> /\ log[1] = <<>>
    /\ \A u \in Threads \ {t} :
         pc[u] = "idle" /\ HeldReads(u) = {} /\ sent[1][u] = <<>> /\ ~HAS_READ[u]

====
